---------------------------- MODULE Spec2Model ----------------------------
(***************************************************************************)
(* A model of DX12/source/main.cpp: the command-line parser, the adapter   *)
(* query, the functions that create the driver objects, the render-target  *)
(* view update, and the fence signal / wait / flush idiom, together with   *)
(* the entry point main.                                                   *)
(*                                                                         *)
(* main is empty, so the functions of the file are exercised by a caller   *)
(* that holds the process-global handles and calls them with valid         *)
(* arguments.  A C++ exception thrown by a function is recorded as the     *)
(* outcome "threw" of the call; the caller is one that catches it.         *)
(*                                                                         *)
(* Six specifications share the variables:                                *)
(*   SpecMain     the program as built: main and nothing else              *)
(*   SpecParse    ParseCommandLineArguments over bounded argument vectors  *)
(*   SpecAdapter  GetAdapter over bounded adapter lists                    *)
(*   SpecCreate   the Create* functions and Signal, from no handle at all  *)
(*   SpecRTV      UpdateRenderTargetViews                                  *)
(*   SpecFence    Signal, WaitForFenceValue, Flush, the fence event, GPU   *)
(***************************************************************************)
EXTENDS Integers, Sequences, FiniteSets

VARIABLES
    \* globals of main.cpp (lines 41-78)
    g_useWarp, g_clientWidth, g_clientHeight, g_isInitialized,
    g_device, g_commandQueue, g_swapChain, g_backBuffers, g_commandList,
    g_commandAllocators, g_RTVDescriptorHeap, g_currBackBufferIndex,
    g_fence, g_fenceValue, g_frameFenceValues, g_fenceEvent,
    \* the process's environment
    argv,          \* the argument vector CommandLineToArgvW returns
    pastEnd,       \* what the two slots after argv[argc-1] hold
    adapters,      \* the adapters EnumAdapters1 enumerates
    debugBuild,    \* whether the build defines _DEBUG (and keeps assert)
    \* the driver's state
    fenceCompleted,  \* ID3D12Fence::GetCompletedValue
    queueSignals,    \* fence values the command queue has yet to signal
    eventRegs,       \* values registered with SetEventOnCompletion
    eventSignalled,  \* the state of the event object behind g_fenceEvent
    eventManualReset,\* bManualReset the event was created with
    rtvDescriptors,  \* descriptor offset -> the buffer its view refers to
    \* the caller
    pc,            \* main's position
    flushPc,       \* Flush's position, and the value it waits for
    lastCall,      \* the last call: its driver calls, outcome and result
    signalCalls,   \* how many times Signal was entered
    lastSignalRet, \* the value the last returning Signal returned
    waitsSatisfied,\* waits on the event that were satisfied
    parseRun       \* what ParseCommandLineArguments read

cmdVars    == <<g_useWarp, g_clientWidth, g_clientHeight>>
handleVars == <<g_device, g_commandQueue, g_swapChain, g_backBuffers,
                g_commandList, g_commandAllocators, g_RTVDescriptorHeap,
                g_fence, g_fenceEvent>>
miscVars   == <<g_isInitialized, g_currBackBufferIndex, g_frameFenceValues>>
envVars    == <<argv, pastEnd, adapters, debugBuild>>
fenceVars  == <<g_fenceValue, fenceCompleted, queueSignals, eventRegs,
                eventSignalled, eventManualReset, flushPc, signalCalls,
                lastSignalRet, waitsSatisfied>>
vars == <<cmdVars, handleVars, miscVars, envVars, fenceVars, rtvDescriptors,
          pc, lastCall, parseRun>>

---------------------------------------------------------------------------
(* Bounds of the model.                                                    *)

MaxArgc == 3
MaxAdapters == 3
MaxMem == 2
MaxFence == 3

---------------------------------------------------------------------------
(* Program constants and initial values of the globals.                    *)

g_numFrames == 3
DefaultWidth == 1280
DefaultHeight == 1080

\* A null ComPtr / HANDLE.
NULL == [null |-> TRUE]

Frames == 0 .. (g_numFrames - 1)

\* HRESULT: negative values are failures.
S_OK == 0
E_FAIL == -1
HRESULTS == {S_OK, E_FAIL}
FAILED(hr) == hr < 0
SUCCEEDED(hr) == hr >= 0

NoCall == [op |-> "none", arg |-> NULL, calls |-> <<>>, outcome |-> "none",
           ret |-> NULL]
NoParse == [done |-> FALSE, crashed |-> FALSE, maxRead |-> -1, maxIndex |-> 0]

---------------------------------------------------------------------------
(* ParseCommandLineArguments (lines 83-106).                               *)
(* Arguments are wide strings, modelled as sequences of characters.        *)

Str_w      == <<"-", "w">>
Str_width  == <<"-", "-", "w", "i", "d", "t", "h">>
Str_h      == <<"-", "h">>
Str_height == <<"-", "-", "h", "e", "i", "g", "h", "t">>
Str_warp1  == <<"-", "w", "a", "r", "p">>
Str_warp2  == <<"-", "-", "w", "a", "r", "p">>

WidthFlags  == {Str_w, Str_width}
HeightFlags == {Str_h, Str_height}
WarpFlags   == {Str_warp1, Str_warp2}

\* The arguments the argument vectors are drawn from: the six spellings the
\* parser compares against, two numerals (one with a trailing letter) and a
\* word.
Tokens == WidthFlags \cup HeightFlags \cup WarpFlags
             \cup { <<"8", "0", "0">>, <<"6", "4", "x">>, <<"a", "p", "p">> }

\* What a slot past the end of argv may hold: a null pointer (NullStr, which
\* is no string: wcscmp and wcstol die on it), or a pointer to some string.
NullStr == <<"(null)">>
PastVals == {NullStr, Str_h, Str_warp1, <<"7">>}

ArgVectors == UNION { [1 .. n -> Tokens] : n \in 0 .. MaxArgc }

DigitValue(c) ==
    CASE c = "0" -> 0 [] c = "1" -> 1 [] c = "2" -> 2 [] c = "3" -> 3
      [] c = "4" -> 4 [] c = "5" -> 5 [] c = "6" -> 6 [] c = "7" -> 7
      [] c = "8" -> 8 [] c = "9" -> 9 [] OTHER -> -1

RECURSIVE Digits(_, _, _)
\* The value of the longest run of decimal digits of s from position k on.
Digits(s, k, acc) ==
    IF k > Len(s) \/ DigitValue(s[k]) < 0 THEN acc
    ELSE Digits(s, k + 1, 10 * acc + DigitValue(s[k]))

\* ::wcstol(s, nullptr, 10): an optional sign, then decimal digits up to the
\* first character that is none; 0 when there is no digit.
wcstol(s) ==
    IF Len(s) > 0 /\ s[1] = "-" THEN 0 - Digits(s, 2, 0)
    ELSE IF Len(s) > 0 /\ s[1] = "+" THEN Digits(s, 2, 0)
    ELSE Digits(s, 1, 0)

\* The conversion of the long to uint32_t on assignment.
ToUint32(x) == IF x >= 0 THEN x ELSE x + 65536 * 65536

\* argv[i], i counted from 0 as in the source.  An index of argc or above
\* reads past the end of the vector: whatever the slot holds.
ArgAt(av, past, i) ==
    IF i < Len(av) THEN av[i + 1] ELSE past[i - Len(av) + 1]

\* A run of the parser: the three globals, the loop index, the largest index
\* of argv read and the largest value the loop index took, and whether the
\* run died dereferencing a null argument.
ParseStart(w, h, warp) ==
    [w |-> w, h |-> h, warp |-> warp, i |-> 0,
     maxRead |-> -1, maxIndex |-> 0, crashed |-> FALSE]

Max(a, b) == IF a >= b THEN a ELSE b

Touch(st, i) ==
    [st EXCEPT !.maxRead = Max(@, i), !.maxIndex = Max(@, i), !.i = i]

Crash(st, i) == [Touch(st, i) EXCEPT !.crashed = TRUE]

\* A flag that takes a value: if argv[i] is one of `flags`, argv[++i] is
\* converted and stored (lines 90-93 and 94-97).
ValueFlag(av, past, st, flags, field) ==
    LET a == ArgAt(av, past, st.i) IN
    IF st.crashed THEN st
    ELSE IF a = NullStr THEN Crash(st, st.i)
    ELSE IF a \in flags THEN
        LET v == ArgAt(av, past, st.i + 1) IN
        IF v = NullStr THEN Crash(Touch(st, st.i), st.i + 1)
        ELSE IF field = "w"
             THEN [Touch(Touch(st, st.i), st.i + 1) EXCEPT !.w = ToUint32(wcstol(v))]
             ELSE [Touch(Touch(st, st.i), st.i + 1) EXCEPT !.h = ToUint32(wcstol(v))]
    ELSE Touch(st, st.i)

\* The flag without a value (lines 98-101).
\* The warp flag with the comparison inverted: any other argument sets it.
WarpFlagInverted(av, past, st) ==
    LET a == ArgAt(av, past, st.i) IN
    IF st.crashed THEN st
    ELSE IF a = NullStr THEN Crash(st, st.i)
    ELSE IF a \notin WarpFlags THEN [Touch(st, st.i) EXCEPT !.warp = TRUE]
    ELSE Touch(st, st.i)

WarpFlag(av, past, st) ==
    LET a == ArgAt(av, past, st.i) IN
    IF st.crashed THEN st
    ELSE IF a = NullStr THEN Crash(st, st.i)
    ELSE IF a \in WarpFlags THEN [Touch(st, st.i) EXCEPT !.warp = TRUE]
    ELSE Touch(st, st.i)

\* One iteration of the loop body (lines 90-101).
ParseBody(av, past, st) ==
    WarpFlag(av, past,
        ValueFlag(av, past,
            ValueFlag(av, past, st, WidthFlags, "w"),
            HeightFlags, "h"))

RECURSIVE ParseLoop(_, _, _)
\* for (size_t i = 0; i < argc; ++i) (line 88).
ParseLoop(av, past, st) ==
    IF st.crashed \/ ~(st.i < Len(av)) THEN st
    ELSE LET b == ParseBody(av, past, st) IN
         IF b.crashed THEN b
         ELSE ParseLoop(av, past,
                        [b EXCEPT !.i = b.i + 1, !.maxIndex = Max(@, b.i + 1)])

ParseCommandLineArguments ==
    /\ ~parseRun.done
    /\ LET r == ParseLoop(argv, pastEnd,
                          ParseStart(g_clientWidth, g_clientHeight, g_useWarp)) IN
        /\ g_clientWidth' = r.w
        /\ g_clientHeight' = r.h
        /\ g_useWarp' = r.warp
        /\ parseRun' = [done |-> TRUE, crashed |-> r.crashed,
                        maxRead |-> r.maxRead, maxIndex |-> r.maxIndex]
    /\ UNCHANGED <<handleVars, miscVars, envVars, fenceVars, rtvDescriptors,
                   pc, lastCall>>

---------------------------------------------------------------------------
(* Driver calls and ThrowIfFailed.                                         *)
(* A run of a function is the sequence of the driver calls it made, each   *)
(* with the HRESULT it returned, and whether the function threw.           *)

Start == [calls |-> <<>>, threw |-> FALSE]

\* A driver call whose HRESULT the function tests itself, with SUCCEEDED or
\* FAILED, or ignores.
Call(run, name, hr) ==
    IF run.threw THEN run
    ELSE [run EXCEPT !.calls = Append(@, <<name, hr>>)]

\* ThrowIfFailed(call): helpers.h throws when the HRESULT is a failure.
ThrowIfFailed(run, name, hr) ==
    IF run.threw THEN run
    ELSE [calls |-> Append(run.calls, <<name, hr>>), threw |-> FAILED(hr)]

Outcome(run) == IF run.threw THEN "threw" ELSE "returned"

\* The record of a finished call; a function that threw returned nothing.
Called(op, arg, run, ret) ==
    [op |-> op, arg |-> arg, calls |-> run.calls, outcome |-> Outcome(run),
     ret |-> IF run.threw THEN NULL ELSE ret]

---------------------------------------------------------------------------
(* GetAdapter (lines 185-235).                                             *)

DXGI_ADAPTER_FLAG_SOFTWARE == 2

\* Flags & DXGI_ADAPTER_FLAG_SOFTWARE
SoftwareBit(flags) ==
    ((flags \div DXGI_ADAPTER_FLAG_SOFTWARE) % 2) * DXGI_ADAPTER_FLAG_SOFTWARE

\* What the driver reports of an adapter: its flags, the result of creating
\* a feature-level-11_0 device on it, its dedicated video memory and the
\* result of querying it for IDXGIAdapter4.
AdapterDescs ==
    [Flags : {0, DXGI_ADAPTER_FLAG_SOFTWARE}, createHr : HRESULTS,
     DedicatedVideoMemory : 0 .. MaxMem, asHr : HRESULTS]

AdapterLists == UNION { [1 .. n -> AdapterDescs] : n \in 0 .. MaxAdapters }

\* The condition of line 224-226, with `above` the comparison of the memory
\* with maxDedicatedVideoMemory.
Selects(desc, above) ==
    /\ SoftwareBit(desc.Flags) = 0
    /\ SUCCEEDED(desc.createHr)
    /\ above

RECURSIVE EnumLoop(_, _, _)
\* The loop of lines 214-231 from adapter i (counted from 0) on; st holds
\* maxDedicatedVideoMemory, dxgiAdapter4 and the run.
EnumLoop(ads, i, st) ==
    IF st.run.threw \/ i >= Len(ads) THEN st    \* DXGI_ERROR_NOT_FOUND
    ELSE LET desc == ads[i + 1] IN
         IF Selects(desc, desc.DedicatedVideoMemory > st.max)
         THEN EnumLoop(ads, i + 1,
                 [max |-> desc.DedicatedVideoMemory,
                  adapter4 |-> [adapter |-> i + 1],
                  run |-> ThrowIfFailed(st.run, "As_IDXGIAdapter4", desc.asHr)])
         ELSE EnumLoop(ads, i + 1, st)

GetAdapterRun(ads, useWarp, hFactory, hWarp, hAs) ==
    LET r0 == ThrowIfFailed(Start, "CreateDXGIFactory2", hFactory) IN
    IF useWarp
    THEN [adapter4 |-> [adapter |-> 0],
          run |-> ThrowIfFailed(ThrowIfFailed(r0, "EnumWarpAdapter", hWarp),
                                "As_IDXGIAdapter4", hAs)]
    ELSE LET st == EnumLoop(ads, 0, [max |-> 0, adapter4 |-> NULL, run |-> r0])
         IN [adapter4 |-> st.adapter4, run |-> st.run]

GetAdapter ==
    /\ \E useWarp \in BOOLEAN, hFactory \in HRESULTS, hWarp \in HRESULTS,
          hAs \in HRESULTS :
          LET r == GetAdapterRun(adapters, useWarp, hFactory, hWarp, hAs) IN
          lastCall' = Called("GetAdapter", [useWarp |-> useWarp], r.run, r.adapter4)
    /\ UNCHANGED <<cmdVars, handleVars, miscVars, envVars, fenceVars,
                   rtvDescriptors, pc, parseRun>>

---------------------------------------------------------------------------
(* The functions that create the driver objects (lines 243-499).           *)

\* The descriptor handle increment sizes a device may report, and the
\* addresses a heap may start at.
IncrSizes == {8, 32}
HeapStarts == {4096}

\* CreateDevice (lines 243-293).  In a _DEBUG build the device is queried
\* for its info queue and, when it has one, a storage filter is pushed.
CreateDeviceRun(debug, h) ==
    LET r1 == ThrowIfFailed(Start, "D3D12CreateDevice", h["D3D12CreateDevice"])
        r2 == Call(r1, "As_ID3D12InfoQueue", h["As_ID3D12InfoQueue"])
    IN  IF ~debug THEN r1
        ELSE IF SUCCEEDED(h["As_ID3D12InfoQueue"])
             THEN ThrowIfFailed(r2, "PushStorageFilter", h["PushStorageFilter"])
             ELSE r2

CreateDeviceCalls ==
    {"D3D12CreateDevice", "As_ID3D12InfoQueue", "PushStorageFilter"}

CreateDevice ==
    /\ g_device = NULL
    /\ \E h \in [CreateDeviceCalls -> HRESULTS], incr \in IncrSizes :
          LET run == CreateDeviceRun(debugBuild, h) IN
          /\ lastCall' = Called("CreateDevice", NULL, run, [incr |-> incr])
          /\ g_device' = lastCall'.ret
    /\ UNCHANGED <<cmdVars, g_commandQueue, g_swapChain, g_backBuffers,
                   g_commandList, g_commandAllocators, g_RTVDescriptorHeap,
                   g_fence, g_fenceEvent, miscVars, envVars, fenceVars,
                   rtvDescriptors, pc, parseRun>>

\* CreateCommandQueue (lines 307-320).
CreateCommandQueueRun(h) ==
    ThrowIfFailed(Start, "CreateCommandQueue", h)

CreateCommandQueue ==
    /\ g_device # NULL /\ g_commandQueue = NULL
    /\ \E h \in HRESULTS :
          /\ lastCall' = Called("CreateCommandQueue", NULL,
                                CreateCommandQueueRun(h), [queue |-> "DIRECT"])
          /\ g_commandQueue' = lastCall'.ret
    /\ UNCHANGED <<cmdVars, g_device, g_swapChain, g_backBuffers,
                   g_commandList, g_commandAllocators, g_RTVDescriptorHeap,
                   g_fence, g_fenceEvent, miscVars, envVars, fenceVars,
                   rtvDescriptors, pc, parseRun>>

\* CheckTearingSupport (lines 325-350): no failure throws; allowTearing is
\* what CheckFeatureSupport stored when it was called and succeeded.
CheckTearingSupport(run, h, tearing) ==
    LET r1 == Call(run, "CreateDXGIFactory1", h["CreateDXGIFactory1"])
        r2 == Call(r1, "As_IDXGIFactory5", h["As_IDXGIFactory5"])
        r3 == Call(r2, "CheckFeatureSupport", h["CheckFeatureSupport"])
    IN  IF run.threw THEN [run |-> run, allow |-> FALSE]
        ELSE IF ~SUCCEEDED(h["CreateDXGIFactory1"]) THEN [run |-> r1, allow |-> FALSE]
        ELSE IF ~SUCCEEDED(h["As_IDXGIFactory5"]) THEN [run |-> r2, allow |-> FALSE]
        ELSE IF FAILED(h["CheckFeatureSupport"]) THEN [run |-> r3, allow |-> FALSE]
        ELSE [run |-> r3, allow |-> tearing]

\* CreateSwapChain (lines 359-405).
CreateSwapChainRun(h, tearing) ==
    LET r1 == ThrowIfFailed(Start, "CreateDXGIFactory2", h["CreateDXGIFactory2"])
        t  == CheckTearingSupport(r1, h, tearing)
        r2 == ThrowIfFailed(t.run, "CreateSwapChainForHwnd", h["CreateSwapChainForHwnd"])
        r3 == ThrowIfFailed(r2, "MakeWindowAssociation", h["MakeWindowAssociation"])
        r4 == ThrowIfFailed(r3, "As_IDXGISwapChain4", h["As_IDXGISwapChain4"])
    IN  [run |-> r4, allowTearing |-> t.allow]

CreateSwapChainCalls ==
    {"CreateDXGIFactory2", "CreateDXGIFactory1", "As_IDXGIFactory5",
     "CheckFeatureSupport", "CreateSwapChainForHwnd", "MakeWindowAssociation",
     "As_IDXGISwapChain4"}

\* Every run of CreateSwapChain: one for each way the driver may answer its
\* calls (answers to calls a run does not make change nothing).
CreateSwapChainRuns ==
    {CreateSwapChainRun(h, tearing) :
        h \in [CreateSwapChainCalls -> HRESULTS], tearing \in BOOLEAN}

CreateSwapChain ==
    /\ g_commandQueue # NULL /\ g_swapChain = NULL
    /\ \E r \in CreateSwapChainRuns :
          /\ lastCall' = Called("CreateSwapChain", NULL, r.run,
                                [swapChain |-> g_numFrames,
                                 allowTearing |-> r.allowTearing])
          /\ g_swapChain' = lastCall'.ret
    /\ UNCHANGED <<cmdVars, g_device, g_commandQueue, g_backBuffers,
                   g_commandList, g_commandAllocators, g_RTVDescriptorHeap,
                   g_fence, g_fenceEvent, miscVars, envVars, fenceVars,
                   rtvDescriptors, pc, parseRun>>

\* CreateDescriptorHeap (lines 408-427).
CreateDescriptorHeapRun(h) ==
    ThrowIfFailed(Start, "CreateDescriptorHeap", h)

CreateDescriptorHeap ==
    /\ g_device # NULL /\ g_RTVDescriptorHeap = NULL
    /\ \E h \in HRESULTS, start \in HeapStarts :
          /\ lastCall' = Called("CreateDescriptorHeap", NULL,
                                CreateDescriptorHeapRun(h), [start |-> start])
          /\ g_RTVDescriptorHeap' = lastCall'.ret
    /\ UNCHANGED <<cmdVars, g_device, g_commandQueue, g_swapChain,
                   g_backBuffers, g_commandList, g_commandAllocators, g_fence,
                   g_fenceEvent, miscVars, envVars, fenceVars, rtvDescriptors,
                   pc, parseRun>>

\* rtvHandle.Offset(rtvDescriptorSize) (line 453): d3dx12.h adds the size to
\* the handle's address.
Offset(ptr, size) == ptr + size

\* CreateRenderTargetView(buffer, nullptr, rtvHandle): the descriptor at
\* rtvHandle now describes a view of the buffer.
Put(descriptors, ptr, buffer) ==
    {d \in descriptors : d[1] # ptr} \cup {<<ptr, buffer>>}

RECURSIVE RTVLoopSameSlot(_, _, _, _)
\* The loop without line 453: rtvHandle is never advanced, and every view
\* is written to the first descriptor.
RTVLoopSameSlot(i, st, rtvDescriptorSize, h) ==
    IF i >= g_numFrames \/ st.run.threw THEN st
    ELSE LET r == ThrowIfFailed(st.run, "GetBuffer", h[i]) IN
         IF r.threw THEN [st EXCEPT !.run = r]
         ELSE RTVLoopSameSlot(i + 1,
                 [backBuffers |-> [st.backBuffers EXCEPT ![i] = [buffer |-> i]],
                  descriptors |-> Put(st.descriptors, st.rtvHandle, i),
                  rtvHandle |-> st.rtvHandle,
                  run |-> r],
                 rtvDescriptorSize, h)

RECURSIVE RTVLoop(_, _, _, _)
\* The loop of lines 439-454 from frame i on; st holds g_backBuffers, the
\* descriptors, rtvHandle and the run.
RTVLoop(i, st, rtvDescriptorSize, h) ==
    IF i >= g_numFrames \/ st.run.threw THEN st
    ELSE LET r == ThrowIfFailed(st.run, "GetBuffer", h[i]) IN
         IF r.threw THEN [st EXCEPT !.run = r]
         ELSE RTVLoop(i + 1,
                 [backBuffers |-> [st.backBuffers EXCEPT ![i] = [buffer |-> i]],
                  descriptors |-> Put(st.descriptors, st.rtvHandle, i),
                  rtvHandle |-> Offset(st.rtvHandle, rtvDescriptorSize),
                  run |-> r],
                 rtvDescriptorSize, h)

\* UpdateRenderTargetViews (lines 429-455).
UpdateRenderTargetViews ==
    /\ g_device # NULL /\ g_swapChain # NULL /\ g_RTVDescriptorHeap # NULL
    /\ \E h \in [Frames -> HRESULTS] :
          LET st == RTVLoop(0, [backBuffers |-> g_backBuffers,
                                descriptors |-> rtvDescriptors,
                                rtvHandle |-> g_RTVDescriptorHeap.start,
                                run |-> Start],
                            g_device.incr, h) IN
          /\ g_backBuffers' = st.backBuffers
          /\ rtvDescriptors' = st.descriptors
          /\ lastCall' = Called("UpdateRenderTargetViews",
                                [before |-> g_backBuffers], st.run, NULL)
    /\ UNCHANGED <<cmdVars, g_device, g_commandQueue, g_swapChain,
                   g_commandList, g_commandAllocators, g_RTVDescriptorHeap,
                   g_fence, g_fenceEvent, miscVars, envVars, fenceVars,
                   pc, parseRun>>

\* CreateCommandAllocator (lines 461-467).
CreateCommandAllocatorRun(h) ==
    ThrowIfFailed(Start, "CreateCommandAllocator", h)

CreateCommandAllocator ==
    /\ g_device # NULL
    /\ \E i \in Frames, h \in HRESULTS :
          /\ g_commandAllocators[i] = NULL
          /\ lastCall' = Called("CreateCommandAllocator", [frame |-> i],
                                CreateCommandAllocatorRun(h), [allocator |-> i])
          /\ g_commandAllocators' =
                [g_commandAllocators EXCEPT ![i] = lastCall'.ret]
    /\ UNCHANGED <<cmdVars, g_device, g_commandQueue, g_swapChain,
                   g_backBuffers, g_commandList, g_RTVDescriptorHeap, g_fence,
                   g_fenceEvent, miscVars, envVars, fenceVars, rtvDescriptors,
                   pc, parseRun>>

\* CreateCommandList, with the result of Close ignored.
CreateCommandListUncheckedClose(hCreate, hClose) ==
    Call(ThrowIfFailed(Start, "CreateCommandList", hCreate), "Close", hClose)

\* CreateCommandList (lines 471-482).
CreateCommandListRun(hCreate, hClose) ==
    ThrowIfFailed(ThrowIfFailed(Start, "CreateCommandList", hCreate),
                  "Close", hClose)

CreateCommandList ==
    /\ g_device # NULL /\ g_commandList = NULL
    /\ g_commandAllocators[g_currBackBufferIndex] # NULL
    /\ \E hCreate \in HRESULTS, hClose \in HRESULTS :
          /\ lastCall' = Called("CreateCommandList", NULL,
                                CreateCommandListRun(hCreate, hClose),
                                [list |-> "DIRECT"])
          /\ g_commandList' = lastCall'.ret
    /\ UNCHANGED <<cmdVars, g_device, g_commandQueue, g_swapChain,
                   g_backBuffers, g_commandAllocators, g_RTVDescriptorHeap,
                   g_fence, g_fenceEvent, miscVars, envVars, fenceVars,
                   rtvDescriptors, pc, parseRun>>

\* CreateFence (lines 491-499), with initialValue 0.
CreateFenceRun(h) ==
    ThrowIfFailed(Start, "CreateFence", h)

CreateFence ==
    /\ g_device # NULL /\ g_fence = NULL
    /\ \E h \in HRESULTS :
          /\ lastCall' = Called("CreateFence", NULL, CreateFenceRun(h),
                                [fence |-> 0])
          /\ g_fence' = lastCall'.ret
    /\ UNCHANGED <<cmdVars, g_device, g_commandQueue, g_swapChain,
                   g_backBuffers, g_commandList, g_commandAllocators,
                   g_RTVDescriptorHeap, g_fenceEvent, miscVars, envVars,
                   fenceVars, rtvDescriptors, pc, parseRun>>

---------------------------------------------------------------------------
(* The fence event (lines 501-508).                                        *)

Idle == [at |-> "idle", value |-> 0]

\* ::CreateEvent(NULL, TRUE, FALSE, NULL): a manual-reset event.
CreateEventManualReset == [bManualReset |-> TRUE, bInitialState |-> FALSE]

\* ::CreateEvent(NULL, FALSE, FALSE, NULL) (line 504): the second argument
\* is bManualReset, the third bInitialState.
CreateEventArgs == [bManualReset |-> FALSE, bInitialState |-> FALSE]

\* CreateEventHandle (lines 501-508).  When CreateEvent fails it returns a
\* null handle; the assert of line 505 stops a build that keeps asserts,
\* and any other build returns the null handle.
CreateEventHandle ==
    /\ g_fenceEvent = NULL /\ flushPc = Idle
    /\ \E ok \in BOOLEAN :
          IF ok
          THEN /\ g_fenceEvent' = [event |-> "fence"]
               /\ eventManualReset' = CreateEventArgs.bManualReset
               /\ eventSignalled' = CreateEventArgs.bInitialState
               /\ lastCall' = [op |-> "CreateEventHandle", arg |-> NULL,
                               calls |-> <<>>, outcome |-> "returned",
                               ret |-> g_fenceEvent']
          ELSE /\ UNCHANGED <<g_fenceEvent, eventManualReset, eventSignalled>>
               /\ lastCall' = [op |-> "CreateEventHandle", arg |-> NULL,
                               calls |-> <<>>,
                               outcome |-> IF debugBuild THEN "asserted"
                                           ELSE "returned",
                               ret |-> NULL]
    /\ UNCHANGED <<cmdVars, g_device, g_commandQueue, g_swapChain,
                   g_backBuffers, g_commandList, g_commandAllocators,
                   g_RTVDescriptorHeap, g_fence, miscVars, envVars,
                   g_fenceValue, fenceCompleted, queueSignals, eventRegs,
                   flushPc, signalCalls, lastSignalRet, waitsSatisfied,
                   rtvDescriptors, pc, parseRun>>

---------------------------------------------------------------------------
(* Signal, WaitForFenceValue and Flush (lines 516-558).                    *)

\* Signal with the counter incremented after its value is taken.
SignalPostIncrement(fenceValue, h) ==
    [fenceValue |-> fenceValue + 1, passed |-> fenceValue + 1,
     ret |-> fenceValue, run |-> ThrowIfFailed(Start, "Signal", h)]

\* Signal (lines 516-524): fenceValueForSignal = ++fenceValue, then
\* commandQueue->Signal(fence, fenceValue).  The counter is a uint64_t; the
\* model stops far below 2^64.
SignalRun(fenceValue, h) ==
    [fenceValue |-> fenceValue + 1, passed |-> fenceValue + 1,
     ret |-> fenceValue + 1, run |-> ThrowIfFailed(Start, "Signal", h)]

\* What a call of Signal leaves behind: the counter, and, when the queue
\* accepted the signal, the value the GPU will set the fence to.
SignalEffects(r) ==
    /\ g_fenceValue' = r.fenceValue
    /\ signalCalls' = signalCalls + 1
    /\ queueSignals' = IF r.run.threw THEN queueSignals
                       ELSE Append(queueSignals, r.passed)
    /\ lastSignalRet' = IF r.run.threw THEN lastSignalRet ELSE r.ret

CanSignal ==
    /\ g_commandQueue # NULL /\ g_fence # NULL
    /\ flushPc = Idle
    /\ signalCalls < MaxFence

Signal ==
    /\ CanSignal
    /\ \E h \in HRESULTS :
          LET r == SignalRun(g_fenceValue, h) IN
          /\ SignalEffects(r)
          /\ lastCall' = Called("Signal", [passed |-> r.passed], r.run,
                                [value |-> r.ret])
    /\ UNCHANGED <<cmdVars, handleVars, miscVars, envVars, fenceCompleted,
                   eventRegs, eventSignalled, eventManualReset, flushPc,
                   waitsSatisfied, rtvDescriptors, pc, parseRun>>

\* WaitForFenceValue (lines 531-544).  Below the value, line 540 registers
\* the event and throws the HRESULT of SetEventOnCompletion, whatever it is;
\* the wait of line 542 is never reached.
WaitForFenceValueRun(completed, fenceValue, h) ==
    IF completed < fenceValue
    THEN [run |-> [calls |-> <<<<"SetEventOnCompletion", h>>>>, threw |-> TRUE],
          registered |-> IF SUCCEEDED(h) THEN {fenceValue} ELSE {}]
    ELSE [run |-> Start, registered |-> {}]

WaitForFenceValue ==
    /\ g_fence # NULL /\ g_fenceEvent # NULL /\ flushPc = Idle
    /\ \E fenceValue \in 0 .. MaxFence, h \in HRESULTS :
          LET r == WaitForFenceValueRun(fenceCompleted, fenceValue, h) IN
          /\ eventRegs' = eventRegs \cup r.registered
          /\ lastCall' = Called("WaitForFenceValue", [value |-> fenceValue],
                                r.run, NULL)
    /\ UNCHANGED <<cmdVars, handleVars, miscVars, envVars, g_fenceValue,
                   fenceCompleted, queueSignals, eventSignalled,
                   eventManualReset, flushPc, signalCalls, lastSignalRet,
                   waitsSatisfied, rtvDescriptors, pc, parseRun>>

\* Flush, line 555: the call of Signal.
FlushSignal ==
    /\ CanSignal /\ g_fenceEvent # NULL
    /\ \E h \in HRESULTS :
          LET r == SignalRun(g_fenceValue, h) IN
          /\ SignalEffects(r)
          /\ IF r.run.threw
             THEN /\ lastCall' = Called("Flush", [passed |-> r.passed, value |-> r.ret],
                                        r.run, NULL)
                  /\ flushPc' = Idle
             ELSE /\ lastCall' = Called("Signal", [passed |-> r.passed], r.run,
                                        [value |-> r.ret])
                  /\ flushPc' = [at |-> "wait", value |-> r.ret]
    /\ UNCHANGED <<cmdVars, handleVars, miscVars, envVars, fenceCompleted,
                   eventRegs, eventSignalled, eventManualReset,
                   waitsSatisfied, rtvDescriptors, pc, parseRun>>

\* Flush, line 557: the call of WaitForFenceValue with the value signalled.
FlushWait ==
    /\ flushPc.at = "wait"
    /\ \E h \in HRESULTS :
          LET r == WaitForFenceValueRun(fenceCompleted, flushPc.value, h) IN
          /\ eventRegs' = eventRegs \cup r.registered
          /\ lastCall' = Called("Flush", [value |-> flushPc.value], r.run, NULL)
    /\ flushPc' = Idle
    /\ UNCHANGED <<cmdVars, handleVars, miscVars, envVars, g_fenceValue,
                   fenceCompleted, queueSignals, eventSignalled,
                   eventManualReset, signalCalls, lastSignalRet,
                   waitsSatisfied, rtvDescriptors, pc, parseRun>>

\* The GPU reaches the next Signal in the queue: the fence takes the value,
\* and an event registered for a value now reached is set.
GPUAdvance ==
    /\ queueSignals # <<>>
    /\ fenceCompleted' = Head(queueSignals)
    /\ queueSignals' = Tail(queueSignals)
    /\ eventRegs' = {v \in eventRegs : v > fenceCompleted'}
    /\ eventSignalled' =
          (eventSignalled \/ \E v \in eventRegs : v <= fenceCompleted')
    /\ UNCHANGED <<cmdVars, handleVars, miscVars, envVars, g_fenceValue,
                   eventManualReset, flushPc, signalCalls, lastSignalRet,
                   waitsSatisfied, rtvDescriptors, pc, lastCall, parseRun>>

\* ::WaitForSingleObject(fenceEvent, ...) by a holder of the handle, on the
\* signalled event: the wait is satisfied, and an event that is not a
\* manual-reset event is reset by it.
WaitForSingleObject ==
    /\ g_fenceEvent # NULL /\ flushPc = Idle
    /\ eventSignalled
    /\ waitsSatisfied < MaxFence
    /\ waitsSatisfied' = waitsSatisfied + 1
    /\ eventSignalled' = eventManualReset
    /\ UNCHANGED <<cmdVars, handleVars, miscVars, envVars, g_fenceValue,
                   fenceCompleted, queueSignals, eventRegs, eventManualReset,
                   flushPc, signalCalls, lastSignalRet, rtvDescriptors, pc,
                   lastCall, parseRun>>

---------------------------------------------------------------------------
(* main (lines 614-617).                                                   *)

\* A main that marks the program initialised.
MainInitializes ==
    /\ pc = "start"
    /\ pc' = "done"
    /\ g_isInitialized' = TRUE
    /\ UNCHANGED <<cmdVars, handleVars, g_currBackBufferIndex,
                   g_frameFenceValues, envVars, fenceVars, rtvDescriptors,
                   lastCall, parseRun>>

\* The body of main is empty.
main ==
    /\ pc = "start"
    /\ pc' = "done"
    /\ UNCHANGED <<cmdVars, handleVars, miscVars, envVars, fenceVars,
                   rtvDescriptors, lastCall, parseRun>>

---------------------------------------------------------------------------
(* The state after static initialisation (lines 41-78): zero-initialised   *)
(* globals, except those with an initialiser.                              *)

InitGlobals ==
    /\ g_useWarp = FALSE
    /\ g_clientWidth = DefaultWidth
    /\ g_clientHeight = DefaultHeight
    /\ g_isInitialized = FALSE
    /\ g_device = NULL
    /\ g_commandQueue = NULL
    /\ g_swapChain = NULL
    /\ g_backBuffers = [i \in Frames |-> NULL]
    /\ g_commandList = NULL
    /\ g_commandAllocators = [i \in Frames |-> NULL]
    /\ g_RTVDescriptorHeap = NULL
    /\ g_currBackBufferIndex = 0
    /\ g_fence = NULL
    /\ g_fenceValue = 0
    /\ g_frameFenceValues = [i \in Frames |-> 0]
    /\ g_fenceEvent = NULL

InitDriver ==
    /\ fenceCompleted = 0
    /\ queueSignals = <<>>
    /\ eventRegs = {}
    /\ eventSignalled = FALSE
    /\ eventManualReset = FALSE
    /\ rtvDescriptors = {}

InitCaller ==
    /\ pc = "start"
    /\ flushPc = Idle
    /\ lastCall = NoCall
    /\ signalCalls = 0
    /\ lastSignalRet = 0
    /\ waitsSatisfied = 0
    /\ parseRun = NoParse

InitParse ==
    /\ InitGlobals /\ InitDriver /\ InitCaller
    /\ argv \in ArgVectors
    /\ pastEnd \in [1 .. 2 -> PastVals]
    /\ adapters = <<>>
    /\ debugBuild = FALSE

NextParse == ParseCommandLineArguments

SpecParse == InitParse /\ [][NextParse]_vars

InitMain ==
    /\ InitGlobals /\ InitDriver /\ InitCaller
    /\ argv \in ArgVectors
    /\ pastEnd = [k \in 1 .. 2 |-> NullStr]
    /\ adapters = <<>>
    /\ debugBuild \in BOOLEAN

NextMain == main

SpecMain == InitMain /\ [][NextMain]_vars

InitAdapter ==
    /\ InitGlobals /\ InitDriver /\ InitCaller
    /\ argv = <<>>
    /\ pastEnd = [k \in 1 .. 2 |-> NullStr]
    /\ adapters \in AdapterLists
    /\ debugBuild = FALSE

NextAdapter == GetAdapter

SpecAdapter == InitAdapter /\ [][NextAdapter]_vars

InitCreate ==
    /\ InitGlobals /\ InitDriver /\ InitCaller
    /\ argv = <<>>
    /\ pastEnd = [k \in 1 .. 2 |-> NullStr]
    /\ adapters = <<>>
    /\ debugBuild \in BOOLEAN

NextCreate ==
    \/ CreateDevice
    \/ CreateCommandQueue
    \/ CreateSwapChain
    \/ CreateDescriptorHeap
    \/ CreateCommandAllocator
    \/ CreateCommandList
    \/ CreateFence
    \/ Signal

SpecCreate == InitCreate /\ [][NextCreate]_vars

\* The state once the device, the command queue, the swap chain and the
\* descriptor heap exist.
InitRTV ==
    /\ InitDriver /\ InitCaller
    /\ g_useWarp = FALSE
    /\ g_clientWidth = DefaultWidth
    /\ g_clientHeight = DefaultHeight
    /\ g_isInitialized = FALSE
    /\ g_device \in {[incr |-> i] : i \in IncrSizes}
    /\ g_commandQueue = [queue |-> "DIRECT"]
    /\ g_swapChain \in {[swapChain |-> g_numFrames, allowTearing |-> t] :
                            t \in BOOLEAN}
    /\ g_backBuffers = [i \in Frames |-> NULL]
    /\ g_commandList = NULL
    /\ g_commandAllocators = [i \in Frames |-> NULL]
    /\ g_RTVDescriptorHeap \in {[start |-> a] : a \in HeapStarts}
    /\ g_currBackBufferIndex = 0
    /\ g_fence = NULL
    /\ g_fenceValue = 0
    /\ g_frameFenceValues = [i \in Frames |-> 0]
    /\ g_fenceEvent = NULL
    /\ argv = <<>>
    /\ pastEnd = [k \in 1 .. 2 |-> NullStr]
    /\ adapters = <<>>
    /\ debugBuild \in BOOLEAN

NextRTV == UpdateRenderTargetViews

SpecRTV == InitRTV /\ [][NextRTV]_vars

\* The state once the device, the command queue and the fence exist.
InitFence ==
    /\ InitDriver /\ InitCaller
    /\ g_useWarp = FALSE
    /\ g_clientWidth = DefaultWidth
    /\ g_clientHeight = DefaultHeight
    /\ g_isInitialized = FALSE
    /\ g_device \in {[incr |-> i] : i \in IncrSizes}
    /\ g_commandQueue = [queue |-> "DIRECT"]
    /\ g_swapChain = NULL
    /\ g_backBuffers = [i \in Frames |-> NULL]
    /\ g_commandList = NULL
    /\ g_commandAllocators = [i \in Frames |-> NULL]
    /\ g_RTVDescriptorHeap = NULL
    /\ g_currBackBufferIndex = 0
    /\ g_fence = [fence |-> 0]
    /\ g_fenceValue = 0
    /\ g_frameFenceValues = [i \in Frames |-> 0]
    /\ g_fenceEvent = NULL
    /\ argv = <<>>
    /\ pastEnd = [k \in 1 .. 2 |-> NullStr]
    /\ adapters = <<>>
    /\ debugBuild \in BOOLEAN

NextFence ==
    \/ CreateEventHandle
    \/ Signal
    \/ WaitForFenceValue
    \/ FlushSignal
    \/ FlushWait
    \/ GPUAdvance
    \/ WaitForSingleObject

SpecFence == InitFence /\ [][NextFence]_vars

---------------------------------------------------------------------------
(* Claims about ParseCommandLineArguments, checked under SpecParse.        *)

AllFlags == WidthFlags \cup HeightFlags \cup WarpFlags

Remove(av, k) == SubSeq(av, 1, k - 1) \o SubSeq(av, k + 1, Len(av))

\* argv[k] (k counted from 1) is none of the flag spellings and does not
\* follow a width or height spelling.
Unrecognised(av, k, flags) ==
    /\ av[k] \notin flags
    /\ (k = 1 \/ av[k - 1] \notin (WidthFlags \cup HeightFlags))

ParseResult(av) ==
    ParseLoop(av, pastEnd, ParseStart(DefaultWidth, DefaultHeight, FALSE))

SameGlobals(r) ==
    /\ r.w = g_clientWidth
    /\ r.h = g_clientHeight
    /\ r.warp = g_useWarp
    /\ r.crashed = parseRun.crashed

\* C5 as stated: the two flags are the width and the height flag (the two
\* that take a value); an argument vector without either leaves the three
\* globals at their defaults, and dropping an argument that is neither one
\* of the two nor the value following one changes nothing.
C5_TwoFlagsOnly ==
    parseRun.done =>
        /\ (\A k \in 1 .. Len(argv) : argv[k] \notin (WidthFlags \cup HeightFlags))
              => /\ g_clientWidth = DefaultWidth
                 /\ g_clientHeight = DefaultHeight
                 /\ g_useWarp = FALSE
        /\ \A k \in 1 .. Len(argv) :
              Unrecognised(argv, k, WidthFlags \cup HeightFlags)
                 => SameGlobals(ParseResult(Remove(argv, k)))

\* C5 amended: the parser recognises three flags (width, height, warp).  An
\* argument vector with none of their spellings leaves the three globals at
\* 1280, 1080, false, and an argument that is none of the three flags and
\* does not follow a width or height flag changes none of the globals:
\* parsing the vector without it gives the same result.
C5_ThreeFlags ==
    parseRun.done =>
        /\ (\A k \in 1 .. Len(argv) : argv[k] \notin AllFlags)
              => /\ g_clientWidth = DefaultWidth
                 /\ g_clientHeight = DefaultHeight
                 /\ g_useWarp = FALSE
                 /\ ~parseRun.crashed
        /\ \A k \in 1 .. Len(argv) :
              Unrecognised(argv, k, AllFlags)
                 => SameGlobals(ParseResult(Remove(argv, k)))

\* A parse that returned, of a vector holding an argument the parser ignores
\* and flags that changed all three globals.
C5_Witness ==
    /\ parseRun.done /\ ~parseRun.crashed
    /\ \E k \in 1 .. Len(argv) : Unrecognised(argv, k, AllFlags)
    /\ g_useWarp = TRUE
    /\ g_clientWidth # DefaultWidth

\* C10: the parser reads argv only at indices below argc, and the loop index
\* never exceeds argc.
C10_ReadsWithinArgv ==
    parseRun.done =>
        /\ parseRun.maxRead < Len(argv)
        /\ parseRun.maxIndex <= Len(argv)

---------------------------------------------------------------------------
(* Claims about main, checked under SpecMain.                              *)

\* C6: when main returns, no setup, update or render step has run: every
\* global and the driver's state are as static initialisation left them.
C6_MainDoesNothing ==
    pc = "done" =>
        /\ InitGlobals
        /\ InitDriver
        /\ lastCall = NoCall
        /\ parseRun = NoParse
        /\ signalCalls = 0

C6_Witness == pc = "done"

\* C3: at startup every driver handle is created (once, in the order device,
\* queue, swap chain, descriptor heap and views, allocators, command list,
\* fence and event): when main returns they all exist.
C3_HandlesCreatedAtStartup ==
    pc = "done" =>
        /\ g_device # NULL
        /\ g_commandQueue # NULL
        /\ g_swapChain # NULL
        /\ g_RTVDescriptorHeap # NULL
        /\ \A i \in Frames : g_backBuffers[i] # NULL /\ g_commandAllocators[i] # NULL
        /\ g_commandList # NULL
        /\ g_fence # NULL
        /\ g_fenceEvent # NULL

---------------------------------------------------------------------------
(* The claim about GetAdapter, checked under SpecAdapter.                  *)

Eligible(desc) == SoftwareBit(desc.Flags) = 0 /\ SUCCEEDED(desc.createHr)

EligibleAdapters == {k \in 1 .. Len(adapters) : Eligible(adapters[k])}

\* C8: with useWarp false, a GetAdapter that returns gives an eligible
\* adapter of the largest dedicated video memory when there is an eligible
\* adapter, never an ineligible one, and none only when none is eligible.
C8_LargestEligibleAdapter ==
    (/\ lastCall.op = "GetAdapter"
     /\ ~lastCall.arg.useWarp
     /\ lastCall.outcome = "returned")
    => /\ (lastCall.ret # NULL => lastCall.ret.adapter \in EligibleAdapters)
       /\ (lastCall.ret = NULL => EligibleAdapters = {})
       /\ (lastCall.ret # NULL =>
             \A k \in EligibleAdapters :
                adapters[lastCall.ret.adapter].DedicatedVideoMemory
                   >= adapters[k].DedicatedVideoMemory)

---------------------------------------------------------------------------
(* The claim about failed driver calls, checked under SpecCreate.          *)

AbortingOps ==
    {"CreateDevice", "CreateCommandQueue", "CreateSwapChain",
     "CreateDescriptorHeap", "CreateCommandAllocator", "CreateCommandList",
     "CreateFence", "Signal"}

\* The calls whose failure the code handles itself: the tearing-support
\* probe of CreateSwapChain and the info-queue query of a debug CreateDevice.
ToleratedCalls ==
    {"CreateDXGIFactory1", "As_IDXGIFactory5", "CheckFeatureSupport",
     "As_ID3D12InfoQueue"}

FailedCalls(c, tolerated) ==
    {k \in 1 .. Len(c.calls) :
        FAILED(c.calls[k][2]) /\ c.calls[k][1] \notin tolerated}

\* A failure among the calls outside `tolerated` aborts the operation at
\* that call: it is the last call made and nothing is returned; without one
\* the operation returns its result.
FailureAborts(c, tolerated) ==
    /\ FailedCalls(c, tolerated) # {}
          => /\ c.outcome = "threw"
             /\ c.ret = NULL
             /\ FailedCalls(c, tolerated) = {Len(c.calls)}
    /\ FailedCalls(c, tolerated) = {}
          => /\ c.outcome = "returned"
             /\ c.ret # NULL

---------------------------------------------------------------------------
(* The claim about UpdateRenderTargetViews, checked under SpecRTV.         *)

\* C9: after a normal return, g_backBuffers[i] is swap-chain buffer i and
\* the descriptor i increments after the heap start is a view of buffer i,
\* for each of the g_numFrames frames, in g_numFrames different slots; when
\* GetBuffer fails for frame i, the entries from i on are as before the call.
C9_ViewsCoverBackBuffers ==
    lastCall.op = "UpdateRenderTargetViews" =>
        IF lastCall.outcome = "returned"
        THEN /\ \A i \in Frames :
                  /\ g_backBuffers[i] = [buffer |-> i]
                  /\ <<g_RTVDescriptorHeap.start + i * g_device.incr, i>>
                        \in rtvDescriptors
             /\ Cardinality({d[1] : d \in rtvDescriptors}) = g_numFrames
        ELSE \A j \in Frames :
                  j >= Len(lastCall.calls) - 1
                     => g_backBuffers[j] = lastCall.arg.before[j]

\* A normal return, after an earlier call failed at frame 1 or 2.
C9_Witness ==
    /\ lastCall.op = "UpdateRenderTargetViews"
    /\ lastCall.outcome = "returned"
    /\ lastCall.arg.before[0] # NULL
    /\ lastCall.arg.before[2] = NULL

---------------------------------------------------------------------------
(* Claims about the fence, checked under SpecFence.                        *)

\* C1: the counter never decreases; each call of Signal (by itself or from
\* Flush) adds exactly 1 and passes the new value to the queue, and a Signal
\* that returns returns the new value, above what the last one returned.
C1_FenceCounterMonotonic ==
    [][ /\ g_fenceValue' >= g_fenceValue
        /\ signalCalls' # signalCalls
              => /\ g_fenceValue' = g_fenceValue + 1
                 /\ lastCall'.arg.passed = g_fenceValue'
                 /\ lastCall'.outcome = "returned"
                       => /\ lastCall'.ret.value = g_fenceValue'
                          /\ lastCall'.ret.value > lastSignalRet
                          /\ lastSignalRet' = lastCall'.ret.value
      ]_vars

\* Signal and Flush have both run, and the last Signal returned the counter.
C1_Witness ==
    /\ g_fenceValue >= 2
    /\ lastCall.op = "Flush"
    /\ lastSignalRet = g_fenceValue

\* C4 as stated: the event is created non-signalled and, nothing in the
\* program resetting it, a signalled event stays signalled, also across a
\* satisfied wait.
C4_ManualResetEvent ==
    [][ /\ (g_fenceEvent = NULL /\ g_fenceEvent' # NULL) => ~eventSignalled'
        /\ eventSignalled => eventSignalled'
      ]_vars

\* C4 amended: the event is an auto-reset event: created non-signalled, it
\* stays signalled once signalled until a wait on it is satisfied, and the
\* satisfied wait resets it.
C4_AutoResetEvent ==
    [][ /\ (g_fenceEvent = NULL /\ g_fenceEvent' # NULL) => ~eventSignalled'
        /\ (eventSignalled /\ waitsSatisfied' = waitsSatisfied) => eventSignalled'
        /\ waitsSatisfied' # waitsSatisfied => (eventSignalled /\ ~eventSignalled')
      ]_vars

\* A wait on the event was satisfied and left it non-signalled.
C4_Witness ==
    /\ g_fenceEvent # NULL
    /\ waitsSatisfied > 0
    /\ ~eventSignalled

\* C7: a Flush whose driver calls succeed returns normally, and only once
\* the fence has reached the value it signalled.
C7_FlushReturnsOnceReached ==
    (/\ lastCall.op = "Flush"
     /\ \A k \in 1 .. Len(lastCall.calls) : SUCCEEDED(lastCall.calls[k][2]))
    => /\ lastCall.outcome = "returned"
       /\ fenceCompleted >= lastCall.arg.value

===========================================================================
